---- MODULE Spec2Model ----
(***************************************************************************)
(* Model of examples/use-cases/scheduled_screenshot_monitor.py:            *)
(* ScheduledScreenshotMonitor (login wait, one-time block discovery,       *)
(* capture cycles, JSON metadata persistence).                             *)
(*                                                                         *)
(* A Python str is modelled as a sequence of symbols.  A symbol is either  *)
(* one of the characters that JSON treats specially (quote, backslash,     *)
(* newline, the path separator "/") or an opaque run of ordinary           *)
(* characters ("Chart-Canvas").  The text of the metadata file is a        *)
(* sequence of symbols as well.                                            *)
(***************************************************************************)
EXTENDS Integers, Sequences, FiniteSets, TLC

\* ------------------------------------------------------------------------
\* Bounds of the model
\* ------------------------------------------------------------------------
MaxCycles == 2
MaxReports == 2
MaxFaults == 2
MaxRtLen == 2

\* asyncio.sleep(3) after the reload, and the default --interval
SettleDelay == 3
interval_seconds == 300

\* ------------------------------------------------------------------------
\* Characters with a meaning in JSON text and in paths
\* ------------------------------------------------------------------------
Quote == "\""
Backslash == "\\"
NL == "\n"
Space == " "
Slash == "/"

\* ------------------------------------------------------------------------
\* ScreenshotMetadata / ScreenshotBlock (pydantic models)
\* ------------------------------------------------------------------------
FieldNames == << <<"timestamp">>, <<"block_name">>, <<"screenshot_path">>, <<"url">> >>

ScreenshotMetadata(ts, name, path, u) ==
    [timestamp |-> ts, block_name |-> name, screenshot_path |-> path, url |-> u]

ScreenshotBlock(n, s) == [name |-> n, selector |-> s]

\* item.model_dump(): the fields as (key, value) pairs, in declaration order
model_dump(item) ==
    << <<FieldNames[1], item.timestamp>>,
       <<FieldNames[2], item.block_name>>,
       <<FieldNames[3], item.screenshot_path>>,
       <<FieldNames[4], item.url>> >>

\* ------------------------------------------------------------------------
\* json.dump(data, f, indent=2, ensure_ascii=False)
\* ------------------------------------------------------------------------
EscapeSymbol_NoEscape(c) == <<c>>

\* json.encoder: quote and backslash get a backslash, newline becomes \n;
\* with ensure_ascii=False every other character is written as it is
EscapeSymbol(c) ==
    IF c = Quote THEN <<Backslash, Quote>>
    ELSE IF c = Backslash THEN <<Backslash, Backslash>>
    ELSE IF c = NL THEN <<Backslash, "n">>
    ELSE <<c>>

RECURSIVE EscapeBody(_)
EscapeBody(s) ==
    IF s = <<>> THEN <<>> ELSE EscapeSymbol(Head(s)) \o EscapeBody(Tail(s))

EncodeString(s) == <<Quote>> \o EscapeBody(s) \o <<Quote>>

Indent(n) == [i \in 1..n |-> Space]

\* the members of one object at nesting level 2: "key": "value",\n ...
RECURSIVE DumpMembers(_)
DumpMembers(pairs) ==
    IF pairs = <<>> THEN <<>>
    ELSE Indent(4) \o EncodeString(Head(pairs)[1]) \o <<":", Space>>
         \o EncodeString(Head(pairs)[2])
         \o (IF Len(pairs) > 1 THEN <<",", NL>> ELSE <<NL>>)
         \o DumpMembers(Tail(pairs))

DumpObject(pairs) ==
    Indent(2) \o <<"{", NL>> \o DumpMembers(pairs) \o Indent(2) \o <<"}">>

RECURSIVE DumpElements(_)
DumpElements(list) ==
    IF list = <<>> THEN <<>>
    ELSE DumpObject(model_dump(Head(list)))
         \o (IF Len(list) > 1 THEN <<",", NL>> ELSE <<NL>>)
         \o DumpElements(Tail(list))

json_dump(list) ==
    IF list = <<>> THEN <<"[", "]">>
    ELSE <<"[", NL>> \o DumpElements(list) \o <<"]">>

\* ------------------------------------------------------------------------
\* json.load(f), for the documents the monitor meets: an array of objects
\* whose members are strings.  Anything else is reported as a failure; in
\* the program such a document either fails to parse or fails the
\* ScreenshotMetadata validation, and both end in the same except branch.
\* ------------------------------------------------------------------------
Fail == [ok |-> FALSE, val |-> <<>>, next |-> 0]

Ok(v, n) == [ok |-> TRUE, val |-> v, next |-> n]

RECURSIVE SkipWs(_, _)
SkipWs(t, i) ==
    IF i <= Len(t) /\ t[i] \in {Space, NL} THEN SkipWs(t, i + 1) ELSE i

At(t, i, c) == i <= Len(t) /\ t[i] = c

RECURSIVE ScanString(_, _, _)
ScanString(t, i, acc) ==
    IF i > Len(t) THEN Fail
    ELSE IF t[i] = Quote THEN Ok(acc, i + 1)
    ELSE IF t[i] = Backslash THEN
        IF i + 1 > Len(t) THEN Fail
        ELSE IF t[i + 1] \in {Quote, Backslash} THEN ScanString(t, i + 2, Append(acc, t[i + 1]))
        ELSE IF t[i + 1] = "n" THEN ScanString(t, i + 2, Append(acc, NL))
        ELSE Fail
    ELSE IF t[i] = NL THEN Fail
    ELSE ScanString(t, i + 1, Append(acc, t[i]))

ParseString(t, i) == IF At(t, i, Quote) THEN ScanString(t, i + 1, <<>>) ELSE Fail

\* a dict; a repeated key keeps the last value
Put(d, k, v) == [x \in (DOMAIN d) \cup {k} |-> IF x = k THEN v ELSE d[x]]

RECURSIVE ParseMembers(_, _, _)
ParseMembers(t, i, acc) ==
    LET k == ParseString(t, SkipWs(t, i))
        c == SkipWs(t, k.next)
        v == ParseString(t, SkipWs(t, c + 1))
        e == SkipWs(t, v.next)
    IN  IF ~k.ok THEN Fail
        ELSE IF ~At(t, c, ":") THEN Fail
        ELSE IF ~v.ok THEN Fail
        ELSE IF At(t, e, ",") THEN ParseMembers(t, e + 1, Put(acc, k.val, v.val))
        ELSE IF At(t, e, "}") THEN Ok(Put(acc, k.val, v.val), e + 1)
        ELSE Fail

ParseObject(t, i) ==
    IF ~At(t, i, "{") THEN Fail
    ELSE IF At(t, SkipWs(t, i + 1), "}") THEN Ok(<<>>, SkipWs(t, i + 1) + 1)
    ELSE ParseMembers(t, i + 1, <<>>)

RECURSIVE ParseElements(_, _, _)
ParseElements(t, i, acc) ==
    LET o == ParseObject(t, SkipWs(t, i))
        e == SkipWs(t, o.next)
    IN  IF ~o.ok THEN Fail
        ELSE IF At(t, e, ",") THEN ParseElements(t, e + 1, Append(acc, o.val))
        ELSE IF At(t, e, "]") THEN Ok(Append(acc, o.val), e + 1)
        ELSE Fail

ParseArray(t, i) ==
    IF ~At(t, i, "[") THEN Fail
    ELSE IF At(t, SkipWs(t, i + 1), "]") THEN Ok(<<>>, SkipWs(t, i + 1) + 1)
    ELSE ParseElements(t, i + 1, <<>>)

json_load(t) ==
    LET r == ParseArray(t, SkipWs(t, 1))
    IN  IF r.ok /\ SkipWs(t, r.next) = Len(t) + 1 THEN r ELSE Fail

\* ScreenshotMetadata(**item): every field is required, other keys are ignored
Validates(item) == \A k \in 1..Len(FieldNames) : FieldNames[k] \in DOMAIN item

FromDict(item) ==
    ScreenshotMetadata(item[FieldNames[1]], item[FieldNames[2]],
                       item[FieldNames[3]], item[FieldNames[4]])

\* ------------------------------------------------------------------------
\* The metadata file
\* ------------------------------------------------------------------------
Absent == [exists |-> FALSE, text |-> <<>>]

File(t) == [exists |-> TRUE, text |-> t]

RECURSIVE Construct(_)
Construct(items) ==
    IF items = <<>> THEN <<>> ELSE <<FromDict(Head(items))>> \o Construct(Tail(items))

\* _load_metadata: the list parsed from the file; an absent file leaves the
\* (empty) list alone, any exception resets it to the empty list
load_metadata(f) ==
    IF ~f.exists THEN <<>>
    ELSE LET r == json_load(f.text)
         IN  IF r.ok /\ (\A k \in 1..Len(r.val) : Validates(r.val[k]))
             THEN Construct(r.val)
             ELSE <<>>

Prefix(t, n) == SubSeq(t, 1, n)

\* What open(metadata_file, 'w') followed by json.dump can do to the file:
\*   ok           both succeed, the file is the dump of the list
\*   open_error   open raises, the file is not touched
\*   write_error  open has truncated the file, a write of json.dump raises
\*                (the with statement closes the file with what was written)
SaveOutcomes == {"ok", "open_error", "write_error"}

\* _save_metadata: the content of the file afterwards.  Every exception is
\* caught and printed, none leaves the method.
save_metadata(list, f, outcome) ==
    IF outcome = "ok" THEN File(json_dump(list))
    ELSE IF outcome = "open_error" THEN f
    ELSE File(Prefix(json_dump(list), Len(json_dump(list)) \div 2))

\* ------------------------------------------------------------------------
\* Paths (pathlib)
\* ------------------------------------------------------------------------
IsAbsolute(p) == p /= <<>> /\ p[1] = Slash

\* screenshot_dir / filename
PathJoin(dir, filename) ==
    IF IsAbsolute(filename) THEN filename ELSE dir \o <<Slash>> \o filename

\* filepath.relative_to('.'): a ValueError for an absolute path
relative_to_dot(p) ==
    IF IsAbsolute(p) THEN [raised |-> TRUE, val |-> <<>>]
    ELSE [raised |-> FALSE, val |-> p]

\* datetime.now().isoformat() and datetime.now().strftime('%Y%m%d_%H%M%S')
isoformat(n) == <<"iso-", ToString(n)>>

strftime(n) == <<ToString(n)>>

\* f'{block.name}_{timestamp_safe}.png'
Filename(block, ts_safe) == block.name \o <<"_">> \o ts_safe \o <<".png">>

\* ------------------------------------------------------------------------
\* Configuration and environment
\* ------------------------------------------------------------------------
target_url == <<"https:", Slash, Slash, "example.com", Slash, "dashboard">>

\* the URL the browser reports after the reload (a redirect is possible)
page_url == <<"https:", Slash, Slash, "example.com", Slash, "home">>

\* --screenshot-dir: the default and an absolute directory
ScreenshotDirs == { <<"screenshots">>, <<Slash, "data", Slash, "shots">> }

OldRecord ==
    ScreenshotMetadata(isoformat(0), <<"Old ", Quote, "A", Quote>>,
                       <<"screenshots", Slash, "Old_0.png">>, target_url)

\* the metadata file found by __init__: none, one written by an earlier
\* run, one cut short, and one that is JSON but not metadata
InitialFiles ==
    { Absent,
      File(json_dump(<<OldRecord>>)),
      File(Prefix(json_dump(<<OldRecord>>), 20)),
      File(<<"[", "{", Quote, "name", Quote, ":", Quote, "x", Quote, "}", "]">>) }

BlockA == ScreenshotBlock(<<"Sales">>, <<"#sales">>)

BlockA2 == ScreenshotBlock(<<"Sales">>, <<"#sales-eu">>)

BlockB == ScreenshotBlock(<<"Revenue ", Quote, "Q1", Quote>>, <<".revenue">>)

\* what the agent may pass to report_blocks
ReportChoices == { <<>>, <<BlockA>>, <<BlockA, BlockB>>, <<BlockA, BlockA2>> }

FallbackBlocks_Reversed ==
    << ScreenshotBlock(<<"Dashboard-Main">>, <<".dashboard, .chart-container, .graph-container">>),
       ScreenshotBlock(<<"Chart-SVG">>, <<"svg">>),
       ScreenshotBlock(<<"Chart-Canvas">>, <<"canvas">>) >>

FallbackBlocks ==
    << ScreenshotBlock(<<"Chart-Canvas">>, <<"canvas">>),
       ScreenshotBlock(<<"Chart-SVG">>, <<"svg">>),
       ScreenshotBlock(<<"Dashboard-Main">>, <<".dashboard, .chart-container, .graph-container">>) >>

identify_result_NoFallback(found) == found

\* identify_chart_blocks, after the agent run: the reported blocks, or the
\* fallback when nothing (or an empty list) was reported
identify_result(found) == IF found /= <<>> THEN found ELSE FallbackBlocks

get_current_url_Raises(ok) ==
    IF ok THEN [raised |-> FALSE, url |-> page_url] ELSE [raised |-> TRUE, url |-> <<>>]

\* _get_current_url: the URL of the browser state, the target URL when
\* get_state raises
get_current_url(ok) ==
    IF ok THEN [raised |-> FALSE, url |-> page_url] ELSE [raised |-> FALSE, url |-> target_url]

append_record_Prepend(list, rec) == <<rec>> \o list

\* self.metadata_list.append(metadata)
append_record(list, rec) == Append(list, rec)

\* ------------------------------------------------------------------------
\* State
\* ------------------------------------------------------------------------
VARIABLES
    pc,               \* position in run_monitoring_loop (or in the round trip)
    screenshot_dir,   \* self.screenshot_dir
    file,             \* the metadata file on disk
    browser_session,  \* self.browser_session: "none", "open", "closed"
    metadata_list,    \* self.metadata_list
    blocks_found,     \* identify_chart_blocks: the nonlocal blocks_found
    reports,          \* number of report_blocks calls of the agent
    agent_error,      \* whether agent.run() raised
    blocks,           \* run_monitoring_loop: blocks
    cycle,            \* run_monitoring_loop: cycle
    clock,            \* the wall clock, in seconds
    timestamp,        \* capture_block_screenshots: timestamp
    timestamp_safe,   \* capture_block_screenshots: timestamp_safe
    current_url,      \* capture_block_screenshots: current_url
    idx,              \* capture_block_screenshots: position of the for loop
    saved,            \* history: metadata_list at the last successful save
    exit_cause,       \* history: why the run ended
    final_save,       \* history: the finally block has called _save_metadata
    cycle_base,       \* history: Len(metadata_list) when the cycle started
    shot_ok,          \* history: blocks whose screenshot call succeeded
    shot_failed,      \* history: blocks whose screenshot call raised
    appended,         \* history: blocks that got a record, in order
    failures,         \* history: kinds of failure met in this cycle
    cycle_saved,      \* history: the cycle has called _save_metadata
    faults            \* history: failures of the environment so far

vars == << pc, screenshot_dir, file, browser_session, metadata_list,
           blocks_found, reports, agent_error, blocks, cycle, clock,
           timestamp, timestamp_safe, current_url, idx, saved, exit_cause,
           final_save, cycle_base, shot_ok, shot_failed, appended, failures,
           cycle_saved, faults >>

config_vars == << screenshot_dir >>

discovery_vars == << blocks_found, reports, agent_error, blocks >>

capture_vars == << timestamp, timestamp_safe, current_url, idx >>

cycle_history == << cycle_base, shot_ok, shot_failed, appended, failures, cycle_saved >>

NoSave == [any |-> FALSE, list |-> <<>>]

Saved(list) == [any |-> TRUE, list |-> list]

LoopPcs == {"reload", "capture_start", "capture", "save", "sleep"}

\* the state of a run that has not started
Fresh ==
    /\ browser_session = "none"
    /\ blocks_found = <<>>
    /\ reports = 0
    /\ agent_error = FALSE
    /\ blocks = <<>>
    /\ cycle = 0
    /\ clock = 1
    /\ timestamp = <<>>
    /\ timestamp_safe = <<>>
    /\ current_url = <<>>
    /\ idx = 0
    /\ exit_cause = "running"
    /\ final_save = FALSE
    /\ cycle_base = 0
    /\ shot_ok = {}
    /\ shot_failed = {}
    /\ appended = <<>>
    /\ failures = {}
    /\ cycle_saved = FALSE
    /\ faults = 0

\* the outcomes the environment may still choose: a call of the browser, the
\* agent or the file system fails at most MaxFaults times in a run
OkChoices == IF faults < MaxFaults THEN BOOLEAN ELSE {TRUE}

SaveChoices == IF faults < MaxFaults THEN SaveOutcomes ELSE {"ok"}

Count(failed) == faults' = IF failed THEN faults + 1 ELSE faults

\* __init__: the fields, then _load_metadata
Init ==
    /\ pc = "start"
    /\ screenshot_dir \in ScreenshotDirs
    /\ file \in InitialFiles
    /\ metadata_list = load_metadata(file)
    /\ saved = NoSave
    /\ Fresh

\* ------------------------------------------------------------------------
\* run_monitoring_loop
\* ------------------------------------------------------------------------

\* an exception raised before the try statement of run_monitoring_loop
\* leaves the coroutine at once: no except clause, no finally block
Propagate(cause, failed) ==
    /\ pc' = "exited"
    /\ exit_cause' = cause
    /\ Count(failed)
    /\ UNCHANGED << config_vars, file, browser_session, metadata_list,
                    discovery_vars, cycle, clock, capture_vars, saved,
                    final_save, cycle_history >>

\* an exception raised inside the try statement: the except clauses print,
\* the finally block saves the metadata and closes the browser session
Finally(cause, failed, outcome) ==
    /\ Count(failed \/ outcome /= "ok")
    /\ outcome \in SaveOutcomes
    /\ file' = save_metadata(metadata_list, file, outcome)
    /\ saved' = IF outcome = "ok" THEN Saved(metadata_list) ELSE saved
    /\ final_save' = TRUE
    /\ browser_session' = IF browser_session /= "none" THEN "closed" ELSE browser_session
    /\ pc' = "exited"
    /\ exit_cause' = cause
    /\ UNCHANGED << config_vars, metadata_list, discovery_vars, cycle, clock,
                    capture_vars, cycle_history >>

\* wait_for_login: self.browser_session = BrowserSession(headless=False)
OpenSession ==
    /\ pc = "start"
    /\ browser_session' = "open"
    /\ pc' = "login_goto"
    /\ UNCHANGED << faults, config_vars, file, metadata_list, discovery_vars, cycle,
                    clock, capture_vars, saved, exit_cause, final_save,
                    cycle_history >>

\* wait_for_login: await self.browser_session.goto(self.target_url)
LoginGoto ==
    /\ pc = "login_goto"
    /\ \E ok \in OkChoices :
         IF ok
         THEN /\ pc' = "login_wait"
              /\ UNCHANGED << faults, config_vars, file, browser_session, metadata_list,
                              discovery_vars, cycle, clock, capture_vars, saved,
                              exit_cause, final_save, cycle_history >>
         ELSE Propagate("login_error", TRUE)

\* wait_for_login: the user presses ENTER; the method returns True
LoginConfirm ==
    /\ pc = "login_wait"
    /\ pc' = "discover"
    /\ UNCHANGED << faults, config_vars, file, browser_session, metadata_list,
                    discovery_vars, cycle, clock, capture_vars, saved,
                    exit_cause, final_save, cycle_history >>

\* identify_chart_blocks: Tools(), Agent(..., llm=ChatBrowserUse(), ...);
\* the constructors are outside every try statement
AgentCreate ==
    /\ pc = "discover"
    /\ \E ok \in OkChoices :
         IF ok
         THEN /\ pc' = "agent_run"
              /\ blocks_found' = <<>>
              /\ UNCHANGED << faults, config_vars, file, browser_session, metadata_list,
                              reports, agent_error, blocks, cycle, clock,
                              capture_vars, saved, exit_cause, final_save,
                              cycle_history >>
         ELSE Propagate("discovery_error", TRUE)

\* report_blocks(params), called by the running agent
AgentReport ==
    /\ pc = "agent_run"
    /\ reports < MaxReports
    /\ \E params \in ReportChoices : blocks_found' = params
    /\ reports' = reports + 1
    /\ UNCHANGED << pc, faults, config_vars, file, browser_session, metadata_list,
                    agent_error, blocks, cycle, clock, capture_vars, saved,
                    exit_cause, final_save, cycle_history >>

\* agent.run() returns or raises an Exception (caught and printed); then
\* identify_chart_blocks returns and run_monitoring_loop tests the result
AgentEnd ==
    /\ pc = "agent_run"
    /\ agent_error' \in OkChoices
    /\ Count(agent_error')
    /\ blocks' = identify_result(blocks_found)
    /\ IF blocks' = <<>>
       THEN /\ pc' = "exited"
            /\ exit_cause' = "no_blocks"
            /\ cycle' = cycle
       ELSE /\ pc' = "reload"
            /\ exit_cause' = exit_cause
            /\ cycle' = 1
    /\ UNCHANGED << config_vars, file, browser_session, metadata_list,
                    blocks_found, reports, clock, capture_vars, saved,
                    final_save, cycle_history >>

\* Ctrl+C while the coroutine is in wait_for_login or identify_chart_blocks
InterruptBeforeLoop ==
    /\ pc \in {"login_goto", "login_wait", "discover", "agent_run"}
    /\ Propagate("interrupt", FALSE)

\* await self.browser_session.goto(self.target_url); await asyncio.sleep(3).
\* The locals of identify_chart_blocks, kept since its return, are dropped.
Reload ==
    /\ pc = "reload"
    /\ \E ok \in OkChoices :
         IF ok
         THEN /\ pc' = "capture_start"
              /\ clock' = clock + SettleDelay
              /\ blocks_found' = <<>>
              /\ reports' = 0
              /\ agent_error' = FALSE
              /\ UNCHANGED << faults, config_vars, file, browser_session,
                              metadata_list, blocks, cycle, capture_vars, saved,
                              exit_cause, final_save, cycle_history >>
         ELSE \E outcome \in {"ok"} \cup (IF faults + 1 < MaxFaults THEN SaveOutcomes ELSE {}) :
                  Finally("reload_error", TRUE, outcome)

\* capture_block_screenshots, up to the for loop: the two readings of the
\* clock (a second may pass between them) and _get_current_url
CaptureStart ==
    /\ pc = "capture_start"
    /\ \E tick \in {0, 1}, ok \in OkChoices :
         LET r == get_current_url(ok)
         IN  IF r.raised
             THEN Finally("url_error", TRUE, "ok")
             ELSE /\ timestamp' = isoformat(clock)
                  /\ timestamp_safe' = strftime(clock + tick)
                  /\ clock' = clock + tick
                  /\ Count(~ok)
                  /\ current_url' = r.url
                  /\ idx' = 1
                  /\ pc' = "capture"
                  /\ cycle_base' = Len(metadata_list)
                  /\ shot_ok' = {}
                  /\ shot_failed' = {}
                  /\ appended' = <<>>
                  /\ failures' = IF ok THEN {} ELSE {"url"}
                  /\ cycle_saved' = FALSE
                  /\ UNCHANGED << config_vars, file, browser_session,
                                  metadata_list, discovery_vars, cycle, saved,
                                  exit_cause, final_save >>

\* one iteration of the for loop of capture_block_screenshots
CaptureBlock ==
    /\ pc = "capture"
    /\ idx \in 1..Len(blocks)
    /\ \E shot \in OkChoices :
         LET block == blocks[idx]
             filepath == PathJoin(screenshot_dir, Filename(block, timestamp_safe))
             rel == relative_to_dot(filepath)
         IN  /\ IF shot /\ ~rel.raised
                THEN /\ metadata_list' =
                          append_record(metadata_list,
                              ScreenshotMetadata(timestamp, block.name, rel.val, current_url))
                     /\ appended' = Append(appended, idx)
                ELSE UNCHANGED << metadata_list, appended >>
             /\ shot_ok' = IF shot THEN shot_ok \cup {idx} ELSE shot_ok
             /\ shot_failed' = IF shot THEN shot_failed ELSE shot_failed \cup {idx}
             /\ failures' = failures \cup (IF ~shot THEN {"screenshot"}
                                           ELSE IF rel.raised THEN {"relative_to"} ELSE {})
             /\ Count(~shot)
    /\ idx' = idx + 1
    /\ pc' = IF idx = Len(blocks) THEN "save" ELSE "capture"
    /\ UNCHANGED << config_vars, file, browser_session, discovery_vars, cycle,
                    clock, timestamp, timestamp_safe, current_url, saved,
                    exit_cause, final_save, cycle_base, cycle_saved >>

\* self._save_metadata() at the end of capture_block_screenshots
CycleSave ==
    /\ pc = "save"
    /\ \E outcome \in SaveChoices :
         /\ Count(outcome /= "ok")
         /\ file' = save_metadata(metadata_list, file, outcome)
         /\ saved' = IF outcome = "ok" THEN Saved(metadata_list) ELSE saved
         /\ failures' = IF outcome = "ok" THEN failures ELSE failures \cup {"save"}
    /\ cycle_saved' = TRUE
    /\ pc' = "sleep"
    /\ UNCHANGED << config_vars, browser_session, metadata_list, discovery_vars,
                    cycle, clock, capture_vars, exit_cause, final_save,
                    cycle_base, shot_ok, shot_failed, appended >>

\* await asyncio.sleep(self.interval_seconds); cycle += 1
Sleep ==
    /\ pc = "sleep"
    /\ cycle < MaxCycles
    /\ cycle' = cycle + 1
    /\ clock' = clock + interval_seconds
    /\ pc' = "reload"
    /\ UNCHANGED << faults, config_vars, file, browser_session, metadata_list,
                    discovery_vars, capture_vars, saved, exit_cause, final_save,
                    cycle_history >>

\* Ctrl+C while the coroutine is inside the try statement
InterruptInLoop ==
    /\ pc \in LoopPcs
    /\ \E outcome \in SaveChoices : Finally("interrupt", FALSE, outcome)

Next ==
    \/ OpenSession
    \/ LoginGoto
    \/ LoginConfirm
    \/ AgentCreate
    \/ AgentReport
    \/ AgentEnd
    \/ InterruptBeforeLoop
    \/ Reload
    \/ CaptureStart
    \/ CaptureBlock
    \/ CycleSave
    \/ Sleep
    \/ InterruptInLoop

Spec == Init /\ [][Next]_vars

\* ------------------------------------------------------------------------
\* Save, then load in a later process
\* ------------------------------------------------------------------------
RtStrings == { <<>>, <<Quote, "b">>, <<Backslash, "n">>, <<"a", NL, Backslash, Quote>> }

RtRecords == { ScreenshotMetadata(isoformat(0), n, <<"screenshots", Slash, "a.png">>, u) :
                   n \in RtStrings, u \in RtStrings }

RtLists == UNION { [1..n -> RtRecords] : n \in 0..MaxRtLen }

InitRT ==
    /\ pc = "rt_ready"
    /\ screenshot_dir = <<"screenshots">>
    /\ file = Absent
    /\ metadata_list \in RtLists
    /\ saved = NoSave
    /\ Fresh

\* _save_metadata, succeeding
RtSave ==
    /\ pc = "rt_ready"
    /\ file' = save_metadata(metadata_list, file, "ok")
    /\ saved' = Saved(metadata_list)
    /\ pc' = "rt_saved"
    /\ UNCHANGED << faults, config_vars, browser_session, metadata_list, discovery_vars,
                    cycle, clock, capture_vars, exit_cause, final_save,
                    cycle_history >>

\* a later process: __init__ starts from the empty list and calls _load_metadata
RtLoad ==
    /\ pc = "rt_saved"
    /\ metadata_list' = load_metadata(file)
    /\ pc' = "rt_loaded"
    /\ UNCHANGED << faults, config_vars, file, browser_session, discovery_vars, cycle,
                    clock, capture_vars, saved, exit_cause, final_save,
                    cycle_history >>

NextRT == RtSave \/ RtLoad

SpecRT == InitRT /\ [][NextRT]_vars

\* ------------------------------------------------------------------------
\* Properties
\* ------------------------------------------------------------------------
IsPrefixOf(a, b) == Len(a) <= Len(b) /\ SubSeq(b, 1, Len(a)) = a

ErrorCauses == {"login_error", "discovery_error", "reload_error", "url_error"}

\* C1: whenever run_monitoring_loop exits because of a user interrupt or an
\* unhandled error raised after the browser session was opened (login wait,
\* block discovery, page reload, capture, sleep), the final _save_metadata
\* has been performed and the browser session has been closed.
C1_FinalSaveAndClose ==
    (pc = "exited" /\ browser_session /= "none"
        /\ exit_cause \in {"interrupt"} \cup ErrorCauses)
    => (final_save /\ browser_session = "closed")

\* C2: in every reachable state the metadata file holds exactly the list as
\* it was at the most recent successful _save_metadata; a save that fails
\* leaves the content of the last successful save.
C2_FileIsLastSave ==
    saved.any => (file.exists /\ file.text = json_dump(saved.list))

\* the blocks of the cycle other than the failed ones, in block-list order
Others == SelectSeq([i \in 1..Len(blocks) |-> i], LAMBDA i : i \notin shot_failed)

\* C3: a capture cycle over B blocks in which the screenshot call fails for
\* exactly one block does not abort: the other B-1 blocks, before and after
\* the failing one, each get a metadata record, and the save at the end of
\* the cycle is performed.
C3_OneFailureKeepsOthers ==
    (pc = "sleep" /\ Cardinality(shot_failed) = 1)
    => /\ appended = Others
       /\ Len(metadata_list) = cycle_base + Len(blocks) - 1
       /\ cycle_saved

\* the records of the running cycle follow those of the earlier cycles and
\* are in block-list order
CycleOrder ==
    pc \in {"capture", "save", "sleep"}
    => /\ Len(metadata_list) = cycle_base + Len(appended)
       /\ \A k \in 1..Len(appended) :
            metadata_list[cycle_base + k].block_name = blocks[appended[k]].name
       /\ \A k \in 1..(Len(appended) - 1) : appended[k] < appended[k + 1]

\* C4: after initialization the metadata list is append-only and ordered by
\* capture: the list of a state is a prefix of the list of the next state
\* (nothing is removed, reordered or changed), and the records added in a
\* cycle come, in block-list order, after all records of earlier cycles.
C4_AppendOnly ==
    [][IsPrefixOf(metadata_list, metadata_list') /\ CycleOrder']_vars

C4_Witness ==
    /\ pc = "sleep"
    /\ cycle = 2
    /\ cycle_base >= 2
    /\ Len(appended) >= 2
    /\ shot_failed /= {}

C6_Expected ==
    << [name |-> <<"Chart-Canvas">>, selector |-> <<"canvas">>],
       [name |-> <<"Chart-SVG">>, selector |-> <<"svg">>],
       [name |-> <<"Dashboard-Main">>,
        selector |-> <<".dashboard, .chart-container, .graph-container">>] >>

DiscoveryReturned == pc = "reload" /\ cycle = 1

\* C6, as stated: whenever the agent run reports no blocks or ends with an
\* error, identify_chart_blocks returns exactly the fallback list of 3
\* blocks, also when the agent reported blocks before it raised the error.
C6_FallbackOnNoneOrError ==
    (DiscoveryReturned /\ (blocks_found = <<>> \/ agent_error))
    => blocks = C6_Expected

\* C6, amended: whenever the agent run ends, normally or with an error,
\* and no non-empty block list is held from report_blocks, the result is
\* exactly the fallback list of 3 blocks in the fixed order; when blocks
\* were reported before the error, the result is the reported blocks.
C6_FallbackOnNoBlocks ==
    DiscoveryReturned
    => IF blocks_found = <<>> THEN blocks = C6_Expected
       ELSE blocks = blocks_found

C6_Witness ==
    /\ DiscoveryReturned
    /\ agent_error
    /\ reports > 0
    /\ blocks_found = <<>>
    /\ Len(blocks) = 3

\* C7: within one capture cycle the filenames built for any two different
\* blocks of the block list are different, so that no screenshot of the
\* cycle overwrites another one of the same cycle.
C7_DistinctFilenames ==
    pc = "capture"
    => \A i, j \in 1..Len(blocks) :
         blocks[i] /= blocks[j]
         => PathJoin(screenshot_dir, Filename(blocks[i], timestamp_safe))
            /= PathJoin(screenshot_dir, Filename(blocks[j], timestamp_safe))

\* C8: save followed by load is the identity on metadata lists: the file
\* written by _save_metadata is parsed by _load_metadata, in a later
\* process, to an equal list (the same records in the same order).
C8_RoundTrip ==
    pc = "rt_loaded" => (saved.any /\ metadata_list = saved.list)

C8_Witness ==
    /\ pc = "rt_loaded"
    /\ Len(metadata_list) = MaxRtLen
    /\ metadata_list[1].block_name = <<"a", NL, Backslash, Quote>>
    /\ metadata_list[MaxRtLen].url = <<Quote, "b">>

\* C9: in a capture cycle, every block whose element screenshot succeeded
\* gets exactly one metadata record, with its name and screenshot path,
\* for every screenshot directory, relative or absolute.
C9_RecordPerSuccessfulShot ==
    pc \in {"capture", "save", "sleep"}
    => \A i \in shot_ok :
         /\ Cardinality({k \in 1..Len(appended) : appended[k] = i}) = 1
         /\ \E k \in 1..Len(appended) :
              /\ appended[k] = i
              /\ metadata_list[cycle_base + k].block_name = blocks[i].name

\* C10: identify_chart_blocks never returns an empty list, so the
\* 'No chart blocks found' exit is not taken: when the agent run ends and
\* discovery returns, the run goes on to capture cycle #1.
C10_DiscoveryStartsCycleOne ==
    [][ (pc = "agent_run" /\ pc' /= "agent_run" /\ exit_cause' /= "interrupt")
        => (pc' = "reload" /\ cycle' = 1 /\ blocks' /= <<>>
            /\ exit_cause' /= "no_blocks") ]_vars

C10_Witness ==
    /\ pc = "capture_start"
    /\ cycle = 1
    /\ blocks = FallbackBlocks

====
